---- MODULE Spec2Model ----
(***************************************************************************)
(* Model of backend/server.js: an attendance / leave backend that keeps    *)
(* three in-memory mirrors (employees, attendanceData, leaveData) of three *)
(* sheets of a spreadsheet (Employees, Attendance, Leave).                 *)
(*                                                                         *)
(* Every handler is cut at its awaits: the synchronous part that runs up   *)
(* to the first await is one action, and each continuation after an await  *)
(* is one action (the store call completing or failing).  Node runs one    *)
(* such piece at a time, so the pieces interleave but never overlap.       *)
(*                                                                         *)
(* JavaScript values are written as strings: JS strings as themselves,     *)
(* the non-string values undefined / true / false with a leading '#', and  *)
(* objects by a name whose JSON text and fields are given by JSONStringify,*)
(* JSONParse and Field.  Numbers (Date.now(), leave ids) are integers.     *)
(***************************************************************************)
EXTENDS Integers, Sequences, FiniteSets, TLC

\* ------------------------------------------------------------------ bounds

\* Requests of one run that change the mirror or put a store call in flight;
\* requests that only read, log in or are refused are not limited.
MaxWrites == 2
\* Handlers suspended on a store call at the same time.
MaxInFlight == 2
\* Clock readings 1..MaxTime (one unit stands for the resolution of Date.now());
\* the rows already in the store were written before, at reading 0.
MaxTime == 2
\* Tokens the clients keep.
MaxTokens == 1

\* ------------------------------------------------------------------ values

Undefined == "#undefined"
T == "#true"
F == "#false"
NaN == 0 - 1

EmpIds == {"e1", "e2"}
Dates == {"d1", "d2"}

\* if (v) ... / v || w / v ? a : b
Truthy(v) == v \notin {Undefined, F, ""}

Bool(b) == IF b THEN T ELSE F

\* The validity window of a token, in clock units ('1h').
TokenTTL == 1

JWT_SECRET == "secret"

\* ------------------------------------------------------------------ JSON

\* The location objects a client submits are "{in}" for {checkIn: p1} and
\* "{in,out}" for {checkIn: p1, checkOut: p2}; "{}" is the empty object.

\* JSON.stringify: an object gives its text, undefined gives undefined.
JSONStringify(v) ==
  CASE v = "{in}" -> "{\"checkIn\":\"p1\"}"
    [] v = "{in,out}" -> "{\"checkIn\":\"p1\",\"checkOut\":\"p2\"}"
    [] v = "{}" -> "{}"
    [] OTHER -> Undefined

\* JSON.parse: the value of a JSON text ("#null" for the text null), "#throw"
\* for a text that is not JSON.
JSONParse(s) ==
  CASE s = "{\"checkIn\":\"p1\"}" -> "{in}"
    [] s = "{\"checkIn\":\"p1\",\"checkOut\":\"p2\"}" -> "{in,out}"
    [] s = "{}" -> "{}"
    [] s = "null" -> "#null"
    [] OTHER -> "#throw"

\* obj.name
Field(obj, name) ==
  CASE obj = "{in}" /\ name = "checkIn" -> "p1"
    [] obj = "{in,out}" /\ name = "checkIn" -> "p1"
    [] obj = "{in,out}" /\ name = "checkOut" -> "p2"
    [] OTHER -> Undefined

\* ------------------------------------------------------------------ numbers

Digits == <<"0", "1", "2", "3", "4", "5", "6", "7", "8", "9">>

\* Number.prototype.toString and the sheet's rendering of a number cell.
NumStr(n) == IF n \in 0..9 THEN Digits[n + 1] ELSE "NaN"

\* A number inside the values array of a store call (a JS number, not a string).
NumLit(n) == IF n \in 0..9 THEN <<"#0", "#1", "#2", "#3", "#4", "#5", "#6", "#7", "#8", "#9">>[n + 1] ELSE "#NaN"

\* parseInt
ParseInt(s) ==
  IF \E n \in 0..9 : Digits[n + 1] = s
  THEN CHOOSE n \in 0..9 : Digits[n + 1] = s
  ELSE NaN

\* ------------------------------------------------------------------ sheets

\* A sheet is a sequence of rows, a row a sequence of cells, a cell a string
\* ("" is an empty cell).  values.append with valueInputOption RAW stores a
\* string as itself, a number as a number, a boolean as a boolean, and leaves
\* the cell empty for undefined; values.get renders each cell as text.
Cell(v) ==
  CASE v = Undefined -> ""
    [] v = T -> "TRUE"
    [] v = F -> "FALSE"
    [] \E n \in 0..9 : v = NumLit(n) -> NumStr(CHOOSE n \in 0..9 : v = NumLit(n))
    [] OTHER -> v

\* The row values.append adds for an array of values.
SheetRow(values) == [j \in 1..Len(values) |-> Cell(values[j])]

\* values.update of the single cell in column c of sheet row r (both counted
\* from 1): rows and cells the sheet did not have yet are created empty.
SetCell(sheet, r, c, v) ==
  LET height == IF r > Len(sheet) THEN r ELSE Len(sheet)
      old(k) == IF k <= Len(sheet) THEN sheet[k] ELSE <<>>
      width(k) == IF c > Len(old(k)) THEN c ELSE Len(old(k))
  IN [k \in 1..height |->
        IF k # r THEN old(k)
        ELSE [j \in 1..width(k) |->
                IF j = c THEN Cell(v)
                ELSE IF j <= Len(old(k)) THEN old(k)[j] ELSE ""]]

\* row[i] of a row returned by values.get (i counted from 0): the API leaves
\* trailing empty cells out, so the element is undefined from the last
\* non-empty cell on.
At(row, i) ==
  IF i + 1 > Len(row) \/ \A j \in (i + 1)..Len(row) : row[j] = ""
  THEN Undefined
  ELSE row[i + 1]

EmptyObj == [k \in {} |-> Undefined]

\* obj[key] = val
Put(obj, key, val) == [k \in (DOMAIN obj) \cup {key} |-> IF k = key THEN val ELSE obj[k]]

\* delete obj[key]
Delete(obj, key) == [k \in (DOMAIN obj) \ {key} |-> obj[k]]

\* The sequence without its i-th element.
Without(s, i) == [j \in 1..(Len(s) - 1) |-> IF j < i THEN s[j] ELSE s[j + 1]]

\* ------------------------------------------------------------------ tokens

\* A request without an Authorization header.
NoToken == [none |-> TRUE]

\* jwt.sign(payload, secret, { expiresIn: '1h' }) at clock reading t.
Sign(payload, secret, t) ==
  [userId |-> payload.userId, isAdmin |-> payload.isAdmin,
   iat |-> t, exp |-> t + TokenTTL, sig |-> secret]

\* jwt.verify(token, secret) at clock reading t: the decoded payload, or a
\* throw for a signature made with another secret or an expired token.
JwtVerify(token, secret, t) ==
  IF token.sig # secret \/ t >= token.exp
  THEN [ok |-> FALSE]
  ELSE [ok |-> TRUE, userId |-> token.userId, isAdmin |-> token.isAdmin,
        iat |-> token.iat, exp |-> token.exp]

\* Tokens signed by someone who does not know JWT_SECRET.
Forged ==
  {[userId |-> "e1", isAdmin |-> T, iat |-> 0, exp |-> MaxTime + TokenTTL + 1, sig |-> "other"]}

\* ------------------------------------------------------------------ state

VARIABLES
  employees,        \* mirror: id -> {name, password, isAdmin}
  attendanceData,   \* mirror: empId -> date -> record
  leaveData,        \* mirror: empId -> list of leave requests
  employeesSheet,   \* store: rows of Employees!A:D
  attendanceSheet,  \* store: rows of Attendance!A:G
  leaveSheet,       \* store: rows of Leave!A:H
  loads,            \* the three startup loads: reading, fetched (rows), done
  inflight,         \* handlers suspended on a store call, in order of arrival
  now,              \* Date.now()
  tokens,           \* tokens issued by login that clients still hold
  nwrites,          \* state-changing requests accepted so far
  submitted,        \* history: empId -> date -> the record of the latest POST /api/attendance since the last delete of empId
  last              \* the step just taken: its operation, inputs and response

mirror == <<employees, attendanceData, leaveData>>
store == <<employeesSheet, attendanceSheet, leaveSheet>>
vars == <<employees, attendanceData, leaveData, employeesSheet, attendanceSheet,
          leaveSheet, loads, inflight, now, tokens, nwrites, submitted, last>>

\* ------------------------------------------------------------------ the store at startup

AdminRow == <<"e1", "Ann", "pw1", "true">>
\* A row whose password and admin cells were never filled in.
BareRow == <<"e2", "Bob", "", "">>

InitEmployeesSheets == {<<AdminRow, BareRow>>}

OldAttendanceRow == <<"e1", "d1", "08:00", "17:00", "{\"checkIn\":\"p1\"}", "FALSE", "FALSE">>

InitAttendanceSheets == {<<OldAttendanceRow>>}

OldLeaveRow == <<"e1", "0", "sick", "d1", "d2", "flu", "Pending", "d0">>

InitLeaveSheets == {<<>>, <<OldLeaveRow>>}

Reading == [pc |-> "reading"]
Done == [pc |-> "done"]
Fetched(rows) == [pc |-> "fetched", rows |-> rows]

\* The process has been started and listens: the mirrors are empty and the
\* three reads (lines 60, 305, 306) have been issued and not yet answered.
Init ==
  /\ employees = EmptyObj
  /\ attendanceData = EmptyObj
  /\ leaveData = EmptyObj
  /\ employeesSheet \in InitEmployeesSheets
  /\ attendanceSheet \in InitAttendanceSheets
  /\ leaveSheet \in InitLeaveSheets
  /\ loads = [employees |-> Reading, attendance |-> Reading, leave |-> Reading]
  /\ inflight = <<>>
  /\ now = 1
  /\ tokens = {}
  /\ nwrites = 0
  /\ submitted = EmptyObj
  /\ last = [op |-> "listen", step |-> "none", status |-> 0]

\* ------------------------------------------------------------------ startup loads

\* employeesSheet.forEach(row => ...) of loadEmployeesFromSheets, from row i on.
RECURSIVE MergeEmployees(_, _, _)
MergeEmployees(rows, i, emps) ==
  IF i > Len(rows) THEN emps
  ELSE LET row == rows[i] IN
       IF Truthy(At(row, 0)) /\ Truthy(At(row, 1))
       THEN MergeEmployees(rows, i + 1,
              Put(emps, At(row, 0),
                  [name |-> At(row, 1), password |-> At(row, 2),
                   isAdmin |-> Bool(At(row, 3) = "true")]))
       ELSE MergeEmployees(rows, i + 1, emps)

\* The record loadAttendanceFromSheets builds from a row and its parsed location.
AttendanceOfRow(row, location) ==
  [checkIn |-> At(row, 2),
   checkOut |-> At(row, 3),
   checkInLocation |-> IF Truthy(Field(location, "checkIn")) THEN Field(location, "checkIn") ELSE "{}",
   checkOutLocation |-> IF Truthy(Field(location, "checkOut")) THEN Field(location, "checkOut") ELSE "{}",
   isLate |-> Bool(At(row, 5) = "true"),
   isHalfDay |-> Bool(At(row, 6) = "true"),
   date |-> At(row, 1)]

\* const location = JSON.parse(row[4] || '{}') of a row.
LocationOfRow(row) == JSONParse(IF Truthy(At(row, 4)) THEN At(row, 4) ELSE "{}")

\* The callback of rows.forEach throws at this row: JSON.parse throws for a
\* text that is not JSON, and location.checkIn throws when the text was null.
RowThrows(row) == LocationOfRow(row) \in {"#throw", "#null"}

\* rows.forEach(row => ...) of loadAttendanceFromSheets, from row i on.  A
\* callback that throws ends the forEach: the rows merged so far stay.
RECURSIVE MergeAttendance(_, _, _)
MergeAttendance(rows, i, att) ==
  IF i > Len(rows) THEN att
  ELSE LET row == rows[i]
           empId == At(row, 0)
           date == At(row, 1)
           location == LocationOfRow(row)
           mine == IF empId \in DOMAIN att THEN att[empId] ELSE EmptyObj
       IN IF RowThrows(row) THEN att
          ELSE MergeAttendance(rows, i + 1,
                 Put(att, empId, Put(mine, date, AttendanceOfRow(row, location))))

\* The leave object loadLeaveFromSheets builds from a row.
LeaveOfRow(row) ==
  [id |-> ParseInt(At(row, 1)), type |-> At(row, 2), fromDate |-> At(row, 3),
   toDate |-> At(row, 4), reason |-> At(row, 5), status |-> At(row, 6),
   appliedOn |-> At(row, 7), employeeId |-> At(row, 0)]

\* rows.forEach(row => ...) of loadLeaveFromSheets, from row i on.
RECURSIVE MergeLeave(_, _, _)
MergeLeave(rows, i, lv) ==
  IF i > Len(rows) THEN lv
  ELSE LET row == rows[i]
           empId == At(row, 0)
           mine == IF empId \in DOMAIN lv THEN lv[empId] ELSE <<>>
       IN MergeLeave(rows, i + 1, Put(lv, empId, Append(mine, LeaveOfRow(row))))

\* The store answers a load's read with the rows it holds at that moment.
LoadFetch(which) ==
  /\ loads[which] = Reading
  /\ loads' = [loads EXCEPT ![which] =
                 Fetched(CASE which = "employees" -> employeesSheet
                           [] which = "attendance" -> attendanceSheet
                           [] which = "leave" -> leaveSheet)]
  /\ last' = [op |-> "fetch", step |-> "none", status |-> 0, which |-> which]
  /\ UNCHANGED <<mirror, store, inflight, now, tokens, nwrites, submitted>>

\* The read fails: the catch logs it and the mirror stays as it is.
LoadFail(which) ==
  /\ loads[which] = Reading
  /\ loads' = [loads EXCEPT ![which] = Done]
  /\ last' = [op |-> "loadFailed", step |-> "none", status |-> 0, which |-> which,
              cause |-> "read"]
  /\ UNCHANGED <<mirror, store, inflight, now, tokens, nwrites, submitted>>

\* loadEmployeesFromSheets after its await.
LoadEmployeesMerge ==
  /\ loads.employees.pc = "fetched"
  /\ employees' = MergeEmployees(loads.employees.rows, 1, employees)
  /\ loads' = [loads EXCEPT !.employees = Done]
  /\ last' = [op |-> "loaded", step |-> "none", status |-> 0, which |-> "employees",
              cause |-> "none"]
  /\ UNCHANGED <<attendanceData, leaveData, store, inflight, now, tokens, nwrites, submitted>>

\* loadAttendanceFromSheets after its await: the forEach runs to its end, or
\* a row throws and the catch logs the error.
LoadAttendanceMerge ==
  /\ loads.attendance.pc = "fetched"
  /\ attendanceData' = MergeAttendance(loads.attendance.rows, 1, attendanceData)
  /\ loads' = [loads EXCEPT !.attendance = Done]
  /\ last' = IF \E k \in 1..Len(loads.attendance.rows) : RowThrows(loads.attendance.rows[k])
             THEN [op |-> "loadFailed", step |-> "none", status |-> 0, which |-> "attendance",
                   cause |-> "row"]
             ELSE [op |-> "loaded", step |-> "none", status |-> 0, which |-> "attendance",
                   cause |-> "none"]
  /\ UNCHANGED <<employees, leaveData, store, inflight, now, tokens, nwrites, submitted>>

\* loadLeaveFromSheets after its await.
LoadLeaveMerge ==
  /\ loads.leave.pc = "fetched"
  /\ leaveData' = MergeLeave(loads.leave.rows, 1, leaveData)
  /\ loads' = [loads EXCEPT !.leave = Done]
  /\ last' = [op |-> "loaded", step |-> "none", status |-> 0, which |-> "leave",
              cause |-> "none"]
  /\ UNCHANGED <<employees, attendanceData, store, inflight, now, tokens, nwrites, submitted>>

\* Time passes.
Tick ==
  /\ now < MaxTime
  /\ now' = now + 1
  /\ last' = [op |-> "tick", step |-> "none", status |-> 0]
  /\ UNCHANGED <<mirror, store, loads, inflight, tokens, nwrites, submitted>>

\* ------------------------------------------------------------------ requests

\* What clients send.
LoginPasswords == {"pw1", Undefined}
CheckInFields ==
  [checkIn |-> "09:00", checkOut |-> Undefined, location |-> "{in}", isLate |-> T, isHalfDay |-> F]
CheckOutFields ==
  [checkIn |-> Undefined, checkOut |-> "18:00", location |-> "{in,out}", isLate |-> F, isHalfDay |-> T]

AttendanceBodies ==
  {[empId |-> k[1], date |-> k[2], checkIn |-> k[3].checkIn, checkOut |-> k[3].checkOut,
    location |-> k[3].location, isLate |-> k[3].isLate, isHalfDay |-> k[3].isHalfDay] :
     k \in {<<"e1", "d1", CheckInFields>>, <<"e1", "d1", CheckOutFields>>,
            <<"e1", "d2", CheckInFields>>, <<"e2", "d1", CheckOutFields>>}}

LeaveBodies ==
  {[empId |-> e, type |-> "casual", fromDate |-> "d1", toDate |-> "d2", reason |-> "trip"] :
     e \in EmpIds}

EmployeeBodies ==
  {[id |-> e, name |-> "Cy", password |-> f.password, isAdmin |-> f.isAdmin] :
     e \in EmpIds,
     f \in {[password |-> "pw1", isAdmin |-> Undefined],
            [password |-> Undefined, isAdmin |-> T]}}

Statuses == {"Approved"}

\* The ids a client can name in PUT /api/leave/:empId/:leaveId.
LeaveIdParams == {NumStr(n) : n \in 0..MaxTime}

\* The Authorization header of a request: none, a token a client holds, or a
\* token made without the secret.
Bearers == {NoToken} \cup tokens \cup Forged

\* A state-changing request is accepted: the run's budget is not used up.
Accept == nwrites < MaxWrites /\ nwrites' = nwrites + 1

\* A handler may suspend on a store call.
MaySuspend == Len(inflight) < MaxInFlight

\* ------------------------------------------------------------------ login

\* Login, had the handler signed { userId: id } alone.
LoginWithoutFlag(id, password) ==
  /\ IF id \in DOMAIN employees /\ employees[id].password = password
     THEN LET token == Sign([userId |-> id, isAdmin |-> Undefined], JWT_SECRET, now)
          IN /\ tokens' = IF Cardinality(tokens \cup {token}) <= MaxTokens
                          THEN tokens \cup {token} ELSE tokens
             /\ last' = [op |-> "login", step |-> "call",
                         req |-> [id |-> id, password |-> password],
                         status |-> 200, success |-> T,
                         name |-> employees[id].name, token |-> token]
     ELSE /\ tokens' = tokens
          /\ last' = [op |-> "login", step |-> "call",
                      req |-> [id |-> id, password |-> password],
                      status |-> 401, success |-> F,
                      message |-> "Invalid credentials", token |-> NoToken]
  /\ UNCHANGED <<mirror, store, loads, inflight, now, nwrites, submitted>>

\* app.post('/api/login').  The server keeps no trace of a login; the client
\* keeps the token while it has room for one.
Login(id, password) ==
  /\ IF id \in DOMAIN employees /\ employees[id].password = password
     THEN LET token == Sign([userId |-> id, isAdmin |-> employees[id].isAdmin], JWT_SECRET, now)
          IN /\ tokens' = IF Cardinality(tokens \cup {token}) <= MaxTokens
                          THEN tokens \cup {token} ELSE tokens
             /\ last' = [op |-> "login", step |-> "call",
                         req |-> [id |-> id, password |-> password],
                         status |-> 200, success |-> T,
                         name |-> employees[id].name, token |-> token]
     ELSE /\ tokens' = tokens
          /\ last' = [op |-> "login", step |-> "call",
                      req |-> [id |-> id, password |-> password],
                      status |-> 401, success |-> F,
                      message |-> "Invalid credentials", token |-> NoToken]
  /\ UNCHANGED <<mirror, store, loads, inflight, now, nwrites, submitted>>

\* ------------------------------------------------------------------ the admin gate

\* verifyAdmin, had it not looked at decoded.isAdmin.
VerifyAdminLenient(token) ==
  IF token = NoToken THEN [status |-> 401, message |-> "Access denied"]
  ELSE IF ~JwtVerify(token, JWT_SECRET, now).ok
       THEN [status |-> 401, message |-> "Invalid token"]
       ELSE [status |-> 0, message |-> "next"]

\* verifyAdmin, had it looked the token's user up in the employee mirror.
VerifyAdminRevoking(token) ==
  IF token = NoToken THEN [status |-> 401, message |-> "Access denied"]
  ELSE LET decoded == JwtVerify(token, JWT_SECRET, now) IN
       IF ~decoded.ok THEN [status |-> 401, message |-> "Invalid token"]
       ELSE IF \/ ~Truthy(decoded.isAdmin)
               \/ decoded.userId \notin DOMAIN employees
               \/ ~Truthy(employees[decoded.userId].isAdmin)
            THEN [status |-> 403, message |-> "Admin access required"]
            ELSE [status |-> 0, message |-> "next"]

\* verifyAdmin: status 0 when it calls next(), else the response it sends.
VerifyAdmin(token) ==
  IF token = NoToken THEN [status |-> 401, message |-> "Access denied"]
  ELSE LET decoded == JwtVerify(token, JWT_SECRET, now) IN
       IF ~decoded.ok THEN [status |-> 401, message |-> "Invalid token"]
       ELSE IF ~Truthy(decoded.isAdmin)
            THEN [status |-> 403, message |-> "Admin access required"]
            ELSE [status |-> 0, message |-> "next"]

\* The routes registered with verifyAdmin (lines 228, 233, 266, 288, 297).
AdminRoutes ==
  {"adminGetAttendance", "putLeave", "postEmployee", "deleteEmployee", "adminGetLeave"}

\* A request to an admin route that verifyAdmin answers itself: next() is not
\* called and the route's handler never runs.
Rejected(op, token) ==
  /\ VerifyAdmin(token).status # 0
  /\ last' = [op |-> op, step |-> "call", token |-> token,
              status |-> VerifyAdmin(token).status,
              message |-> VerifyAdmin(token).message]
  /\ UNCHANGED <<mirror, store, loads, inflight, now, tokens, nwrites, submitted>>

\* verifyAdmin calls next(): the route's handler runs in the same turn.
Admitted(token) == VerifyAdmin(token).status = 0

\* ------------------------------------------------------------------ attendance

\* app.get('/api/attendance/:empId')
GetAttendance(empId) ==
  /\ last' = [op |-> "getAttendance", step |-> "call", req |-> [empId |-> empId], status |-> 200,
              body |-> IF empId \in DOMAIN attendanceData
                       THEN attendanceData[empId] ELSE EmptyObj]
  /\ UNCHANGED <<mirror, store, loads, inflight, now, tokens, nwrites, submitted>>

\* The object POST /api/attendance stores in the mirror (lines 162-169).
AttendanceOfBody(b) ==
  [checkIn |-> b.checkIn, checkOut |-> b.checkOut, location |-> b.location,
   isLate |-> b.isLate, isHalfDay |-> b.isHalfDay, date |-> b.date]

\* The values POST /api/attendance appends (line 178).
AttendanceValues(b) ==
  <<b.empId, b.date, b.checkIn, b.checkOut, JSONStringify(b.location), b.isLate, b.isHalfDay>>

\* SetAttendance, had the handler assigned the submitted fields onto the
\* record already there (Object.assign) instead of replacing it.
SetAttendanceMerging(att, empId, date, record) ==
  LET mine == IF empId \in DOMAIN att THEN att[empId] ELSE EmptyObj
      old == IF date \in DOMAIN mine THEN mine[date] ELSE EmptyObj
      merged == [f \in (DOMAIN old) \cup (DOMAIN record) |->
                   IF f \in DOMAIN record /\ (record[f] # Undefined \/ f \notin DOMAIN old)
                   THEN record[f] ELSE old[f]]
  IN Put(att, empId, Put(mine, date, merged))

\* SetAttendance, had the handler assigned a new object holding the one date
\* to attendanceData[empId] (attendanceData[empId] = { [date]: record }).
SetAttendanceAlone(att, empId, date, record) ==
  Put(att, empId, Put(EmptyObj, date, record))

\* attendanceData[empId][date] = record, creating attendanceData[empId] if missing.
SetAttendance(att, empId, date, record) ==
  Put(att, empId, Put(IF empId \in DOMAIN att THEN att[empId] ELSE EmptyObj, date, record))

\* app.post('/api/attendance') up to its await.
PostAttendance(b) ==
  /\ Accept
  /\ MaySuspend
  /\ attendanceData' = SetAttendance(attendanceData, b.empId, b.date, AttendanceOfBody(b))
  /\ inflight' = Append(inflight, [op |-> "postAttendance", call |-> "append",
                                   sheet |-> "Attendance", values |-> AttendanceValues(b),
                                   req |-> b, token |-> NoToken])
  /\ submitted' = Put(submitted, b.empId,
                      Put(IF b.empId \in DOMAIN submitted THEN submitted[b.empId] ELSE EmptyObj,
                          b.date, AttendanceOfBody(b)))
  /\ last' = [op |-> "postAttendance", step |-> "call", req |-> b, status |-> 0]
  /\ UNCHANGED <<employees, leaveData, store, loads, now, tokens>>

\* ------------------------------------------------------------------ leave

\* new Date().toLocaleDateString(): every clock reading of a run is on one day.
LocaleDateString(t) == "d1"

\* app.get('/api/leave/:empId')
GetLeave(empId) ==
  /\ last' = [op |-> "getLeave", step |-> "call", req |-> [empId |-> empId], status |-> 200,
              body |-> IF empId \in DOMAIN leaveData THEN leaveData[empId] ELSE <<>>]
  /\ UNCHANGED <<mirror, store, loads, inflight, now, tokens, nwrites, submitted>>

\* The leave object POST /api/leave builds (lines 197-206).
LeaveOfBody(b, t) ==
  [id |-> t, type |-> b.type, fromDate |-> b.fromDate, toDate |-> b.toDate,
   reason |-> b.reason, status |-> "Pending", appliedOn |-> LocaleDateString(t),
   employeeId |-> b.empId]

\* The values POST /api/leave appends (line 217).
LeaveValues(empId, leave) ==
  <<empId, NumLit(leave.id), leave.type, leave.fromDate, leave.toDate, leave.reason,
    leave.status, leave.appliedOn>>

\* leaveData[empId].push(leave), creating the list if missing.
PushLeave(lv, empId, leave) ==
  Put(lv, empId, Append(IF empId \in DOMAIN lv THEN lv[empId] ELSE <<>>, leave))

\* app.post('/api/leave') up to its await.
PostLeave(b) ==
  /\ Accept
  /\ MaySuspend
  /\ LET leave == LeaveOfBody(b, now) IN
       /\ leaveData' = PushLeave(leaveData, b.empId, leave)
       /\ inflight' = Append(inflight, [op |-> "postLeave", call |-> "append",
                                        sheet |-> "Leave", values |-> LeaveValues(b.empId, leave),
                                        req |-> b, token |-> NoToken])
       /\ last' = [op |-> "postLeave", step |-> "call", req |-> b, status |-> 0, leave |-> leave]
  /\ UNCHANGED <<employees, attendanceData, store, loads, now, tokens, submitted>>

\* leaveList.find(l => l.id.toString() === leaveId): the position of the
\* first such entry, 0 if there is none.
FindLeave(leaveList, leaveId) ==
  IF \E k \in 1..Len(leaveList) : NumStr(leaveList[k].id) = leaveId
  THEN CHOOSE k \in 1..Len(leaveList) :
         /\ NumStr(leaveList[k].id) = leaveId
         /\ \A j \in 1..(k - 1) : NumStr(leaveList[j].id) # leaveId
  ELSE 0

\* rows.findIndex(row => row[0] === empId && row[1] === leaveId), -1 if none.
FindRowIndex(rows, empId, leaveId) ==
  LET hit(k) == At(rows[k], 0) = empId /\ At(rows[k], 1) = leaveId IN
  IF \E k \in 1..Len(rows) : hit(k)
  THEN (CHOOSE k \in 1..Len(rows) : hit(k) /\ \A j \in 1..(k - 1) : ~hit(j)) - 1
  ELSE 0 - 1

\* PutLeaveStatus, had the handler read Leave!A:H from the store before
\* looking the leave up in the mirror.
PutLeaveStatusReadingFirst(token, empId, leaveId, status) ==
  LET req == [empId |-> empId, leaveId |-> leaveId, status |-> status]
      k == IF empId \in DOMAIN leaveData THEN FindLeave(leaveData[empId], leaveId) ELSE 0
  IN
  /\ Admitted(token)
  /\ Accept
  /\ MaySuspend
  /\ leaveData' = IF k = 0 THEN leaveData ELSE [leaveData EXCEPT ![empId][k].status = status]
  /\ inflight' = Append(inflight, [op |-> "putLeave", call |-> "get",
                                   sheet |-> "Leave", req |-> req, token |-> token])
  /\ last' = [op |-> "putLeave", step |-> "call", token |-> token, req |-> req, status |-> 0]
  /\ UNCHANGED <<employees, attendanceData, store, loads, now, tokens, submitted>>

\* app.put('/api/leave/:empId/:leaveId') once verifyAdmin has called next(),
\* up to its first await.
PutLeaveStatus(token, empId, leaveId, status) ==
  LET req == [empId |-> empId, leaveId |-> leaveId, status |-> status]
      k == IF empId \in DOMAIN leaveData THEN FindLeave(leaveData[empId], leaveId) ELSE 0
  IN
  /\ Admitted(token)
  /\ IF k = 0
     THEN /\ last' = [op |-> "putLeave", step |-> "call", token |-> token, req |-> req,
                      status |-> 404, message |-> "Leave not found"]
          /\ UNCHANGED <<mirror, store, loads, inflight, now, tokens, nwrites, submitted>>
     ELSE /\ Accept
          /\ MaySuspend
          /\ leaveData' = [leaveData EXCEPT ![empId][k].status = status]
          /\ inflight' = Append(inflight, [op |-> "putLeave", call |-> "get",
                                           sheet |-> "Leave", req |-> req, token |-> token])
          /\ last' = [op |-> "putLeave", step |-> "call", token |-> token, req |-> req, status |-> 0]
          /\ UNCHANGED <<employees, attendanceData, store, loads, now, tokens, submitted>>

\* ------------------------------------------------------------------ admin routes

\* app.get('/api/admin/attendance') once verifyAdmin has called next().
AdminGetAttendance(token) ==
  /\ Admitted(token)
  /\ last' = [op |-> "adminGetAttendance", step |-> "call", token |-> token, req |-> [all |-> T],
              status |-> 200, body |-> attendanceData]
  /\ UNCHANGED <<mirror, store, loads, inflight, now, tokens, nwrites, submitted>>

\* app.get('/api/admin/leave') once verifyAdmin has called next().
AdminGetLeave(token) ==
  /\ Admitted(token)
  /\ last' = [op |-> "adminGetLeave", step |-> "call", token |-> token, req |-> [all |-> T],
              status |-> 200, body |-> leaveData]
  /\ UNCHANGED <<mirror, store, loads, inflight, now, tokens, nwrites, submitted>>

\* The object POST /api/admin/employee stores in the mirror (line 268).
EmployeeOfBody(b) ==
  [name |-> b.name, password |-> b.password,
   isAdmin |-> IF Truthy(b.isAdmin) THEN b.isAdmin ELSE F]

\* The values POST /api/admin/employee appends (line 277).
EmployeeValues(b) ==
  <<b.id, b.name, b.password, IF Truthy(b.isAdmin) THEN "true" ELSE "false">>

\* app.post('/api/admin/employee') once verifyAdmin has called next(), up to
\* its await.
PostEmployee(token, b) ==
  /\ Admitted(token)
  /\ Accept
  /\ MaySuspend
  /\ employees' = Put(employees, b.id, EmployeeOfBody(b))
  /\ inflight' = Append(inflight, [op |-> "postEmployee", call |-> "append",
                                   sheet |-> "Employees", values |-> EmployeeValues(b),
                                   req |-> b, token |-> token])
  /\ last' = [op |-> "postEmployee", step |-> "call", token |-> token, req |-> b, status |-> 0]
  /\ UNCHANGED <<attendanceData, leaveData, store, loads, now, tokens, submitted>>

\* DeleteEmployee, had the route been registered without verifyAdmin.
DeleteEmployeeOpen(token, id) ==
  /\ Accept
  /\ employees' = Delete(employees, id)
  /\ attendanceData' = Delete(attendanceData, id)
  /\ leaveData' = Delete(leaveData, id)
  /\ submitted' = Delete(submitted, id)
  /\ last' = [op |-> "deleteEmployee", step |-> "call", token |-> token, req |-> [id |-> id],
              status |-> 200, success |-> T]
  /\ UNCHANGED <<store, loads, inflight, now, tokens>>

\* DeleteEmployee, had the handler left out delete leaveData[id].
DeleteEmployeeKeepingLeave(token, id) ==
  /\ Admitted(token)
  /\ Accept
  /\ employees' = Delete(employees, id)
  /\ attendanceData' = Delete(attendanceData, id)
  /\ submitted' = Delete(submitted, id)
  /\ last' = [op |-> "deleteEmployee", step |-> "call", token |-> token, req |-> [id |-> id],
              status |-> 200, success |-> T]
  /\ UNCHANGED <<leaveData, store, loads, inflight, now, tokens>>

\* app.delete('/api/admin/employee/:id') once verifyAdmin has called next().
DeleteEmployee(token, id) ==
  /\ Admitted(token)
  /\ Accept
  /\ employees' = Delete(employees, id)
  /\ attendanceData' = Delete(attendanceData, id)
  /\ leaveData' = Delete(leaveData, id)
  /\ submitted' = Delete(submitted, id)
  /\ last' = [op |-> "deleteEmployee", step |-> "call", token |-> token, req |-> [id |-> id],
              status |-> 200, success |-> T]
  /\ UNCHANGED <<store, loads, inflight, now, tokens>>

\* ------------------------------------------------------------------ store calls completing

\* The message of a handler's catch block.
FailureMessage(op) ==
  CASE op = "postAttendance" -> "Failed to save attendance"
    [] op = "postLeave" -> "Failed to save leave"
    [] op = "putLeave" -> "Failed to update leave status"
    [] op = "postEmployee" -> "Failed to save employee"

\* res.json({ success: true }) of the handler suspended at position i.
Succeed(i) ==
  /\ inflight' = Without(inflight, i)
  /\ last' = [op |-> inflight[i].op, step |-> "resume", token |-> inflight[i].token,
              req |-> inflight[i].req, status |-> 200, success |-> T]

\* The catch block of the handler suspended at position i.
Fail(i) ==
  /\ inflight' = Without(inflight, i)
  /\ last' = [op |-> inflight[i].op, step |-> "resume", token |-> inflight[i].token,
              req |-> inflight[i].req, status |-> 500, success |-> F,
              message |-> FailureMessage(inflight[i].op)]

\* AppendOk, had POST /api/attendance written its record to the mirror after
\* the await instead of before it.
AppendOkWritingMirror(i) ==
  /\ i \in 1..Len(inflight)
  /\ inflight[i].call = "append"
  /\ LET row == SheetRow(inflight[i].values) IN
       /\ attendanceSheet' = IF inflight[i].sheet = "Attendance"
                             THEN Append(attendanceSheet, row) ELSE attendanceSheet
       /\ leaveSheet' = IF inflight[i].sheet = "Leave"
                        THEN Append(leaveSheet, row) ELSE leaveSheet
       /\ employeesSheet' = IF inflight[i].sheet = "Employees"
                            THEN Append(employeesSheet, row) ELSE employeesSheet
  /\ Succeed(i)
  /\ attendanceData' =
       IF inflight[i].op = "postAttendance"
       THEN SetAttendance(attendanceData, inflight[i].req.empId, inflight[i].req.date,
                          AttendanceOfBody(inflight[i].req))
       ELSE attendanceData
  /\ UNCHANGED <<employees, leaveData, loads, now, tokens, nwrites, submitted>>

\* values.append succeeds: the row is added below the sheet's rows and the
\* handler answers.
AppendOk(i) ==
  /\ i \in 1..Len(inflight)
  /\ inflight[i].call = "append"
  /\ LET row == SheetRow(inflight[i].values) IN
       /\ attendanceSheet' = IF inflight[i].sheet = "Attendance"
                             THEN Append(attendanceSheet, row) ELSE attendanceSheet
       /\ leaveSheet' = IF inflight[i].sheet = "Leave"
                        THEN Append(leaveSheet, row) ELSE leaveSheet
       /\ employeesSheet' = IF inflight[i].sheet = "Employees"
                            THEN Append(employeesSheet, row) ELSE employeesSheet
  /\ Succeed(i)
  /\ UNCHANGED <<mirror, loads, now, tokens, nwrites, submitted>>

\* CallFail, had the catch blocks undone the handler's write to the mirror.
CallFailRollback(i) ==
  /\ i \in 1..Len(inflight)
  /\ Fail(i)
  /\ attendanceData' =
       IF inflight[i].op = "postAttendance" /\ inflight[i].req.empId \in DOMAIN attendanceData
       THEN Put(attendanceData, inflight[i].req.empId,
                Delete(attendanceData[inflight[i].req.empId], inflight[i].req.date))
       ELSE attendanceData
  /\ employees' = IF inflight[i].op = "postEmployee"
                  THEN Delete(employees, inflight[i].req.id) ELSE employees
  /\ UNCHANGED <<leaveData, store, loads, now, tokens, nwrites, submitted>>

\* A store call (append, get or update) fails: nothing is written and the
\* handler's catch answers.
CallFail(i) ==
  /\ i \in 1..Len(inflight)
  /\ Fail(i)
  /\ UNCHANGED <<mirror, store, loads, now, tokens, nwrites, submitted>>

\* PUT /api/leave: values.get of Leave!A:H answers (lines 248-258).  An empty
\* sheet has no values, so rows is undefined and rows.findIndex throws.
PutLeaveGetOk(i) ==
  /\ i \in 1..Len(inflight)
  /\ inflight[i].call = "get"
  /\ LET rowIndex == FindRowIndex(leaveSheet, inflight[i].req.empId, inflight[i].req.leaveId) IN
       IF leaveSheet = <<>> THEN Fail(i)
       ELSE IF rowIndex > 0 - 1
            THEN /\ inflight' = [inflight EXCEPT ![i] =
                                   [op |-> "putLeave", call |-> "update", sheet |-> "Leave",
                                    req |-> inflight[i].req, token |-> inflight[i].token,
                                    rowIndex |-> rowIndex]]
                 /\ last' = [op |-> "putLeave", step |-> "resume", token |-> inflight[i].token,
                             req |-> inflight[i].req, status |-> 0]
            ELSE Succeed(i)
  /\ UNCHANGED <<mirror, store, loads, now, tokens, nwrites, submitted>>

\* PUT /api/leave: values.update of Leave!F<rowIndex + 2> succeeds.
PutLeaveUpdateOk(i) ==
  /\ i \in 1..Len(inflight)
  /\ inflight[i].call = "update"
  /\ leaveSheet' = SetCell(leaveSheet, inflight[i].rowIndex + 2, 6, inflight[i].req.status)
  /\ Succeed(i)
  /\ UNCHANGED <<mirror, employeesSheet, attendanceSheet, loads, now, tokens, nwrites, submitted>>

\* ------------------------------------------------------------------ specification

\* The startup loads: their reads being answered, and their merges.
Startup ==
  \/ \E which \in {"employees", "attendance", "leave"} : LoadFetch(which)
  \/ \E which \in {"employees", "attendance", "leave"} : LoadFail(which)
  \/ LoadEmployeesMerge
  \/ LoadAttendanceMerge
  \/ LoadLeaveMerge

\* The requests, the store calls they wait for, and the clock.
Serve ==
  \/ Tick
  \/ \E id \in EmpIds, password \in LoginPasswords : Login(id, password)
  \/ \E empId \in EmpIds : GetAttendance(empId)
  \/ \E b \in AttendanceBodies : PostAttendance(b)
  \/ \E empId \in EmpIds : GetLeave(empId)
  \/ \E b \in LeaveBodies : PostLeave(b)
  \/ \E op \in AdminRoutes, token \in Bearers : Rejected(op, token)
  \/ \E token \in Bearers : AdminGetAttendance(token)
  \/ \E token \in Bearers : AdminGetLeave(token)
  \/ \E token \in Bearers, empId \in EmpIds, leaveId \in LeaveIdParams, status \in Statuses :
       PutLeaveStatus(token, empId, leaveId, status)
  \/ \E token \in Bearers, b \in EmployeeBodies : PostEmployee(token, b)
  \/ \E token \in Bearers, id \in EmpIds : DeleteEmployee(token, id)
  \/ \E i \in 1..MaxInFlight : AppendOk(i)
  \/ \E i \in 1..MaxInFlight : CallFail(i)
  \/ \E i \in 1..MaxInFlight : PutLeaveGetOk(i)
  \/ \E i \in 1..MaxInFlight : PutLeaveUpdateOk(i)

Next == Startup \/ Serve

\* The server from the moment it listens, with the loads still under way.
Spec == Init /\ [][Next]_vars

\* The server after a quiet startup: every load has merged the rows the store
\* held, and no request arrived before that.
InitServing ==
  /\ employeesSheet \in InitEmployeesSheets
  /\ attendanceSheet \in InitAttendanceSheets
  /\ leaveSheet \in InitLeaveSheets
  /\ employees = MergeEmployees(employeesSheet, 1, EmptyObj)
  /\ attendanceData = MergeAttendance(attendanceSheet, 1, EmptyObj)
  /\ leaveData = MergeLeave(leaveSheet, 1, EmptyObj)
  /\ loads = [employees |-> Done, attendance |-> Done, leave |-> Done]
  /\ inflight = <<>>
  /\ now = 1
  /\ tokens = {}
  /\ nwrites = 0
  /\ submitted = EmptyObj
  /\ last = [op |-> "listen", step |-> "none", status |-> 0]

SpecServing == InitServing /\ [][Serve]_vars

\* The requests that can meet a load still under way, without the clock and
\* without the routes that only read or patch: what a client does while the
\* server starts.
ServeEarly ==
  \/ \E id \in EmpIds, password \in LoginPasswords : Login(id, password)
  \/ \E empId \in EmpIds : GetAttendance(empId)
  \/ \E b \in AttendanceBodies : PostAttendance(b)
  \/ \E empId \in EmpIds : GetLeave(empId)
  \/ \E b \in LeaveBodies : PostLeave(b)
  \/ \E token \in Bearers, b \in EmployeeBodies : PostEmployee(token, b)
  \/ \E token \in Bearers, id \in EmpIds : DeleteEmployee(token, id)
  \/ \E i \in 1..MaxInFlight : AppendOk(i)
  \/ \E i \in 1..MaxInFlight : CallFail(i)

SpecStartup == Init /\ [][Startup \/ ServeEarly]_vars

\* Rows an attendance sheet can hold besides OldAttendanceRow: one whose
\* location cell is not JSON, one whose location cell is the JSON text null,
\* and one whose location cell is empty.
BrokenLocationRow == <<"e2", "d1", "09:30", "", "{oops", "true", "FALSE">>
NullLocationRow == <<"e2", "d2", "09:45", "", "null", "FALSE", "FALSE">>
PlainRow == <<"e1", "d2", "10:00", "", "", "FALSE", "true">>

AttendanceRows == {OldAttendanceRow, BrokenLocationRow, NullLocationRow, PlainRow}

\* The longest attendance sheet the loads are run against.
MaxRows == 3

LoadAttendanceSheets ==
  UNION {[1..n -> AttendanceRows] : n \in 0..MaxRows}

\* The process has been started against a store whose attendance sheet holds
\* any rows, sound or not.
InitLoads ==
  /\ employees = EmptyObj
  /\ attendanceData = EmptyObj
  /\ leaveData = EmptyObj
  /\ employeesSheet \in InitEmployeesSheets
  /\ attendanceSheet \in LoadAttendanceSheets
  /\ leaveSheet \in InitLeaveSheets
  /\ loads = [employees |-> Reading, attendance |-> Reading, leave |-> Reading]
  /\ inflight = <<>>
  /\ now = 1
  /\ tokens = {}
  /\ nwrites = 0
  /\ submitted = EmptyObj
  /\ last = [op |-> "listen", step |-> "none", status |-> 0]

\* The startup loads alone, before any request arrives.
SpecLoads == InitLoads /\ [][Startup]_vars

\* ------------------------------------------------------------------ properties

\* A validly signed, unexpired token with a true admin flag, at clock reading t.
ValidAdminToken(token, t) ==
  /\ token # NoToken
  /\ token.sig = JWT_SECRET
  /\ t < token.exp
  /\ token.isAdmin = T

WriteOps == {"postAttendance", "postLeave", "putLeave", "postEmployee"}

\* The mirror (emps, att, lv) holds the mutation of the suspended handler e.
Applied(e, emps, att, lv) ==
  CASE e.op = "postAttendance" ->
         /\ e.req.empId \in DOMAIN att
         /\ e.req.date \in DOMAIN att[e.req.empId]
         /\ att[e.req.empId][e.req.date] =
              [checkIn |-> e.req.checkIn, checkOut |-> e.req.checkOut,
               location |-> e.req.location, isLate |-> e.req.isLate,
               isHalfDay |-> e.req.isHalfDay, date |-> e.req.date]
    [] e.op = "postLeave" ->
         /\ e.req.empId \in DOMAIN lv
         /\ lv[e.req.empId] # <<>>
         /\ LET l == lv[e.req.empId][Len(lv[e.req.empId])] IN
              l.type = e.req.type /\ l.reason = e.req.reason /\ l.status = "Pending"
    [] e.op = "putLeave" ->
         /\ e.req.empId \in DOMAIN lv
         /\ \E k \in 1..Len(lv[e.req.empId]) :
              /\ NumStr(lv[e.req.empId][k].id) = e.req.leaveId
              /\ lv[e.req.empId][k].status = e.req.status
    [] e.op = "postEmployee" ->
         /\ e.req.id \in DOMAIN emps
         /\ emps[e.req.id].name = e.req.name
         /\ emps[e.req.id].password = e.req.password

\* C1: in every write handler the mirror holds the mutation at the moment the
\* store call is issued; a failing store call is answered with an error (500,
\* success false) and leaves the whole mirror as it was, mutation included; an
\* append that did not reach the store is never answered with success.
C1_MirrorFirstNoRollback ==
  [][/\ Len(inflight') = Len(inflight) + 1 =>
          /\ inflight'[Len(inflight')].op \in WriteOps
          /\ Applied(inflight'[Len(inflight')], employees', attendanceData', leaveData')
     /\ last'.step = "resume" /\ last'.status = 500 =>
          /\ mirror' = mirror
          /\ last'.op \in WriteOps
          /\ last'.success = F
     /\ Len(inflight') < Len(inflight) /\ store' = store
          /\ last'.op \in {"postAttendance", "postLeave", "postEmployee"} =>
          last'.status = 500
    ]_vars

\* A POST /api/attendance for (e1, d2) was answered 500, the store has no row
\* for (e1, d2), and the mirror still holds the submitted record.
C1_Witness ==
  /\ last.op = "postAttendance" /\ last.step = "resume" /\ last.status = 500
  /\ last.req.empId = "e1" /\ last.req.date = "d2"
  /\ \A k \in 1..Len(attendanceSheet) :
       ~(At(attendanceSheet[k], 0) = "e1" /\ At(attendanceSheet[k], 1) = "d2")
  /\ "e1" \in DOMAIN attendanceData
  /\ "d2" \in DOMAIN attendanceData["e1"]
  /\ attendanceData["e1"]["d2"].checkIn = last.req.checkIn

\* The records submitted for empId since it was last deleted.
SubmittedFor(empId) == IF empId \in DOMAIN submitted THEN submitted[empId] ELSE EmptyObj

\* C2: every GET /api/attendance/E returns, for each date D that a POST
\* /api/attendance has written for E, the record of the latest such POST
\* (no delete of E since), whether its append is pending, done or failed.
C2_ReadYourWrite ==
  last.op = "getAttendance" =>
    \A d \in DOMAIN SubmittedFor(last.req.empId) :
      /\ d \in DOMAIN last.body
      /\ last.body[d] = SubmittedFor(last.req.empId)[d]

\* The record with exactly the fields a POST /api/attendance body submits.
SubmittedRecord(req) ==
  [checkIn |-> req.checkIn, checkOut |-> req.checkOut, location |-> req.location,
   isLate |-> req.isLate, isHalfDay |-> req.isHalfDay, date |-> req.date]

\* C3: a POST /api/attendance for (E, D) leaves the mirror with one record for
\* (E, D), the submitted one, whatever was there before, and touches no other
\* key; its successful append adds exactly one row for (E, D) below the rows of
\* the store; and no step removes or rewrites a row of the attendance sheet.
\* So two POSTs in sequence leave the second record and two more rows.
C3_OverwriteAndAppend ==
  [][/\ last'.op = "postAttendance" /\ last'.step = "call" =>
          /\ last'.req.empId \in DOMAIN attendanceData'
          /\ last'.req.date \in DOMAIN attendanceData'[last'.req.empId]
          /\ attendanceData'[last'.req.empId][last'.req.date] = SubmittedRecord(last'.req)
          /\ \A e \in DOMAIN attendanceData :
               /\ e \in DOMAIN attendanceData'
               /\ \A d \in DOMAIN attendanceData[e] :
                    <<e, d>> # <<last'.req.empId, last'.req.date>> =>
                      /\ d \in DOMAIN attendanceData'[e]
                      /\ attendanceData'[e][d] = attendanceData[e][d]
     /\ last'.op = "postAttendance" /\ last'.step = "resume" /\ last'.status = 200 =>
          /\ Len(attendanceSheet') = Len(attendanceSheet) + 1
          /\ At(attendanceSheet'[Len(attendanceSheet')], 0) = last'.req.empId
          /\ At(attendanceSheet'[Len(attendanceSheet')], 1) = last'.req.date
     /\ Len(attendanceSheet') >= Len(attendanceSheet)
     /\ \A k \in 1..Len(attendanceSheet) : attendanceSheet'[k] = attendanceSheet[k]
    ]_vars

\* Two POSTs for (e1, d1) have both been answered with success: the check-in
\* one, then the check-out one.  The store has a row for each below the row it
\* started with; the mirror holds the check-out record, without the check-in
\* time of the first.
C3_Witness ==
  /\ last.op = "postAttendance" /\ last.step = "resume" /\ last.status = 200
  /\ last.req.empId = "e1" /\ last.req.date = "d1" /\ last.req.checkOut = "18:00"
  /\ inflight = <<>>
  /\ Len(attendanceSheet) = 3
  /\ At(attendanceSheet[2], 0) = "e1" /\ At(attendanceSheet[2], 1) = "d1"
  /\ At(attendanceSheet[2], 2) = "09:00"
  /\ At(attendanceSheet[3], 0) = "e1" /\ At(attendanceSheet[3], 1) = "d1"
  /\ At(attendanceSheet[3], 3) = "18:00"
  /\ attendanceData["e1"]["d1"] = SubmittedRecord(last.req)
  /\ attendanceData["e1"]["d1"].checkIn = Undefined

\* C4: a login with the id of an employee of the mirror and the password the
\* mirror holds for it is answered 200 with a token that verifies, and whose
\* decoded userId is the id and decoded isAdmin the employee's isAdmin.
C4_LoginIssuesToken ==
  (/\ last.op = "login"
   /\ last.req.id \in DOMAIN employees
   /\ employees[last.req.id].password = last.req.password)
  => /\ last.status = 200
     /\ last.success = T
     /\ last.token # NoToken
     /\ JwtVerify(last.token, JWT_SECRET, now).ok
     /\ JwtVerify(last.token, JWT_SECRET, now).userId = last.req.id
     /\ JwtVerify(last.token, JWT_SECRET, now).isAdmin = employees[last.req.id].isAdmin

\* The admin e1 has logged in with its password and holds an admin token.
C4_Witness ==
  /\ last.op = "login" /\ last.status = 200
  /\ last.req.id = "e1" /\ last.req.password = "pw1"
  /\ last.token.userId = "e1" /\ last.token.isAdmin = T
  /\ "e1" \in DOMAIN employees /\ employees["e1"].isAdmin = T

\* C5: a login whose id is not in the mirror, whose password differs from the
\* stored one, or that carries no password, is answered 401 'Invalid
\* credentials' without a token.
C5_BadLoginRefused ==
  (/\ last.op = "login"
   /\ \/ last.req.id \notin DOMAIN employees
      \/ employees[last.req.id].password # last.req.password
      \/ last.req.password = Undefined)
  => /\ last.status = 401
     /\ last.message = "Invalid credentials"
     /\ last.token = NoToken

\* The response to a request was (status, message).
Answered(status, message) == last.status = status /\ last.message = message

\* C6: on every admin route, a request without a token is answered 401 'Access
\* denied', one with a validly signed, unexpired token whose admin flag is
\* false 403 'Admin access required', and one with an expired or wrongly
\* signed token 401 'Invalid token'.
C6_GateErrors ==
  (last.op \in AdminRoutes /\ last.step = "call") =>
    /\ last.token = NoToken => Answered(401, "Access denied")
    /\ (/\ last.token # NoToken
        /\ last.token.sig = JWT_SECRET
        /\ now < last.token.exp
        /\ last.token.isAdmin = F) => Answered(403, "Admin access required")
    /\ (/\ last.token # NoToken
        /\ (last.token.sig # JWT_SECRET \/ now >= last.token.exp))
         => Answered(401, "Invalid token")

\* A delete carrying the admin's own, expired token was answered 'Invalid token'.
C6_Witness ==
  /\ last.op = "deleteEmployee" /\ last.step = "call"
  /\ last.token # NoToken
  /\ last.token.sig = JWT_SECRET /\ last.token.isAdmin = T /\ now >= last.token.exp
  /\ Answered(401, "Invalid token")

\* C7: a step in which a request creates, replaces or deletes an entry of the
\* employee mirror, changes the status of a leave request, removes an
\* employee's attendance or leave entries, or returns a full attendance or
\* leave mapping, is the call of an admin route carrying a validly signed,
\* unexpired token with a true admin flag; and a request the gate answers with
\* 401 or 403 changes neither mirror nor store and issues no store call.
C7_OnlyBehindGate ==
  [][/\ (\/ employees' # employees /\ last'.op # "loaded"
         \/ \E e \in (DOMAIN leaveData) \cap (DOMAIN leaveData') :
              \E k \in 1..Len(leaveData[e]) :
                /\ k <= Len(leaveData'[e])
                /\ leaveData'[e][k].status # leaveData[e][k].status
         \/ \E e \in DOMAIN attendanceData : e \notin DOMAIN attendanceData'
         \/ \E e \in DOMAIN leaveData : e \notin DOMAIN leaveData'
         \/ last'.op \in {"adminGetAttendance", "adminGetLeave"} /\ last'.status = 200)
        => /\ last'.op \in AdminRoutes
           /\ last'.step = "call"
           /\ ValidAdminToken(last'.token, now)
     /\ (last'.op \in AdminRoutes /\ last'.step = "call" /\ last'.status \in {401, 403})
        => mirror' = mirror /\ store' = store /\ inflight' = inflight
    ]_vars

\* An admin has replaced the entry of e2 in the employee mirror.
C7_Witness ==
  /\ last.op = "postEmployee" /\ last.step = "call" /\ last.status = 0
  /\ ValidAdminToken(last.token, now)
  /\ last.req.id = "e2"
  /\ employees["e2"].name = last.req.name

\* C8: an admitted DELETE /api/admin/employee/E removes E from the employee,
\* attendance and leave mirrors in one step, keeps every other entry and the
\* whole store; and while E is in none of the mirrors, GET /api/attendance/E
\* returns an empty object, GET /api/leave/E an empty list, and a login as E
\* is refused.
C8_DeleteCascades ==
  [][/\ (last'.op = "deleteEmployee" /\ last'.status = 200) =>
          /\ last'.req.id \notin DOMAIN employees'
          /\ last'.req.id \notin DOMAIN attendanceData'
          /\ last'.req.id \notin DOMAIN leaveData'
          /\ \A e \in (DOMAIN employees) \ {last'.req.id} :
               e \in DOMAIN employees' /\ employees'[e] = employees[e]
          /\ \A e \in (DOMAIN attendanceData) \ {last'.req.id} :
               e \in DOMAIN attendanceData' /\ attendanceData'[e] = attendanceData[e]
          /\ \A e \in (DOMAIN leaveData) \ {last'.req.id} :
               e \in DOMAIN leaveData' /\ leaveData'[e] = leaveData[e]
          /\ store' = store
     /\ (last'.op = "getAttendance" /\ last'.req.empId \notin DOMAIN attendanceData')
          => last'.body = EmptyObj
     /\ (last'.op = "getLeave" /\ last'.req.empId \notin DOMAIN leaveData')
          => last'.body = <<>>
     /\ (last'.op = "login" /\ last'.req.id \notin DOMAIN employees')
          => last'.status = 401 /\ last'.token = NoToken
    ]_vars

\* e1, who had attendance and leave entries, has been deleted: the mirrors
\* have nothing for e1, the store still has its rows, and a read of e1's
\* attendance has returned an empty object.
C8_Witness ==
  /\ last.op = "getAttendance" /\ last.req.empId = "e1" /\ last.body = EmptyObj
  /\ "e1" \notin (DOMAIN employees) \cup (DOMAIN attendanceData) \cup (DOMAIN leaveData)
  /\ \E k \in 1..Len(attendanceSheet) : At(attendanceSheet[k], 0) = "e1"
  /\ \E k \in 1..Len(leaveSheet) : At(leaveSheet[k], 0) = "e1"
  /\ \E k \in 1..Len(employeesSheet) : At(employeesSheet[k], 0) = "e1"

\* C9: in an employee's leave list, each request has an identifier strictly
\* greater than the one submitted before it.
C9_LeaveIdsIncrease ==
  \A e \in DOMAIN leaveData :
    \A k \in 1..(Len(leaveData[e]) - 1) :
      leaveData[e][k].id < leaveData[e][k + 1].id

\* C10: a request to an admin route that carries a validly signed, unexpired
\* token with a true admin flag is never answered by the gate (401 or 403),
\* whatever the employee mirror holds for the token's user.
C10_NoRevocation ==
  (/\ last.op \in AdminRoutes
   /\ last.step = "call"
   /\ ValidAdminToken(last.token, now))
  => last.status \notin {401, 403}

\* The admin e1 is no longer in the employee mirror, and a request with the
\* token e1 got at login has been served the full leave mapping.
C10_Witness ==
  /\ last.op = "adminGetLeave" /\ last.step = "call" /\ last.status = 200
  /\ last.token \in tokens
  /\ last.token.userId = "e1"
  /\ "e1" \notin DOMAIN employees

\* The position of the last row of rows with the key of row k.
LastForKey(rows, k) ==
  \A j \in (k + 1)..Len(rows) :
    ~(At(rows[j], 0) = At(rows[k], 0) /\ At(rows[j], 1) = At(rows[k], 1))

\* C11: when the attendance load has read rows of which some have a location
\* cell that is not JSON (and its read did not fail), every row of the range is
\* merged into the mirror, and a row with such a cell is merged with empty
\* check-in and check-out locations.
C11_MalformedLocationRecovered ==
  (/\ last.op \in {"loaded", "loadFailed"}
   /\ last.which = "attendance"
   /\ last.cause # "read"
   /\ \E k \in 1..Len(attendanceSheet) : LocationOfRow(attendanceSheet[k]) = "#throw"
   /\ \A k \in 1..Len(attendanceSheet) : LocationOfRow(attendanceSheet[k]) # "#null")
  => \A k \in 1..Len(attendanceSheet) :
       LET row == attendanceSheet[k] IN
       /\ At(row, 0) \in DOMAIN attendanceData
       /\ At(row, 1) \in DOMAIN attendanceData[At(row, 0)]
       /\ (LastForKey(attendanceSheet, k) /\ LocationOfRow(row) = "#throw") =>
            /\ attendanceData[At(row, 0)][At(row, 1)].checkInLocation = "{}"
            /\ attendanceData[At(row, 0)][At(row, 1)].checkOutLocation = "{}"

\* C12: a step in which a load ends in its catch block (the read failed, or a
\* row made the merge throw) leaves the three mirror mappings as they were
\* before the step: no row of the failed load has been merged.
C12_FailedLoadMergesNothing ==
  [][last'.op = "loadFailed" => mirror' = mirror]_vars

\* C13: within any one employee's leave list in the mirror no two entries have
\* the same leave identifier, under every interleaving of a POST /api/leave
\* with the startup leave load.  Stated for runs with at most one write
\* request, in which no two POSTs can have read the same clock value.
C13_LeaveIdsUnique ==
  nwrites <= 1 =>
    \A e \in DOMAIN leaveData :
      \A j, k \in 1..Len(leaveData[e]) :
        j < k => leaveData[e][j].id # leaveData[e][k].id

\* The store row k is the row of leave leaveId of employee empId.
IsLeaveRow(rows, k, empId, leaveId) ==
  At(rows[k], 0) = empId /\ At(rows[k], 1) = leaveId

\* C14: when a status update for (E, L) whose row is in the store is answered
\* with success, the step that wrote to the store changed exactly one cell:
\* the status cell (column G, the seventh) of a row of (E, L), which now holds
\* the new status; every other row and column is as before.
C14_StatusCellPatched ==
  [][(/\ last'.op = "putLeave" /\ last'.step = "resume" /\ last'.status = 200
      /\ \E k \in 1..Len(leaveSheet) :
           IsLeaveRow(leaveSheet, k, last'.req.empId, last'.req.leaveId))
     => \E k \in 1..Len(leaveSheet) :
          /\ IsLeaveRow(leaveSheet, k, last'.req.empId, last'.req.leaveId)
          /\ leaveSheet' = [leaveSheet EXCEPT ![k][7] = last'.req.status]
    ]_vars

\* C15: a status update that the gate let through, for an employee with no
\* leave list in the mirror or for an identifier no entry of the list has, is
\* answered 404 'Leave not found' in the same step, and that step changes
\* neither the mirror nor the store and puts no store call in flight.
C15_NotFoundChangesNothing ==
  [][(/\ last'.op = "putLeave" /\ last'.step = "call" /\ last'.status \notin {401, 403}
      /\ \/ last'.req.empId \notin DOMAIN leaveData
         \/ \A k \in 1..Len(leaveData[last'.req.empId]) :
              NumStr(leaveData[last'.req.empId][k].id) # last'.req.leaveId)
     => /\ last'.status = 404
        /\ last'.message = "Leave not found"
        /\ mirror' = mirror
        /\ store' = store
        /\ inflight' = inflight
    ]_vars

\* A status update for an identifier that the employee's non-empty leave list
\* does not hold was answered 404.
C15_Witness ==
  /\ last.op = "putLeave" /\ last.step = "call" /\ last.status = 404
  /\ last.req.empId \in DOMAIN leaveData
  /\ leaveData[last.req.empId] # <<>>
  /\ \A k \in 1..Len(leaveData[last.req.empId]) :
       leaveData[last.req.empId][k].status # last.req.status

\* C16: every record a POST /api/attendance submitted (and no later POST for
\* the same key replaced, no delete removed) is in the mirror with exactly its
\* submitted fields, in every state: while the store calls of other requests
\* are in flight and after they have succeeded or failed in any order.  So two
\* concurrent POSTs with different keys leave both records.
C16_DifferentKeysKeepBoth ==
  \A e \in DOMAIN submitted :
    \A d \in DOMAIN submitted[e] :
      /\ e \in DOMAIN attendanceData
      /\ d \in DOMAIN attendanceData[e]
      /\ attendanceData[e][d] = submitted[e][d]

\* Two POSTs are in flight at once, for (e1, d2) and for (e2, d1), e2 having
\* had no entry before; the first of them has just failed or succeeded while
\* the other still waits, and the mirror holds both records.
C16_Witness ==
  /\ last.op = "postAttendance" /\ last.step = "resume"
  /\ Len(inflight) = 1
  /\ inflight[1].op = "postAttendance"
  /\ {<<last.req.empId, last.req.date>>, <<inflight[1].req.empId, inflight[1].req.date>>}
       = {<<"e1", "d2">>, <<"e2", "d1">>}
  /\ nwrites = 2
  /\ attendanceData["e1"]["d2"].checkIn = "09:00"
  /\ attendanceData["e2"]["d1"].checkOut = "18:00"
  /\ DOMAIN attendanceData["e1"] = {"d1", "d2"}

\* C17: the step in which the append of a POST /api/attendance succeeds or
\* fails leaves the attendance mirror as it is, so that the value for (E, D)
\* stays the record of the request whose mirror write ran last (as long as E
\* has not been deleted), whatever the order and outcome of the appends.
C17_LastMirrorWriteWins ==
  [][(last'.op = "postAttendance" /\ last'.step = "resume") =>
       /\ attendanceData' = attendanceData
       /\ (/\ last'.req.empId \in DOMAIN submitted'
           /\ last'.req.date \in DOMAIN submitted'[last'.req.empId]) =>
            attendanceData'[last'.req.empId][last'.req.date]
              = submitted'[last'.req.empId][last'.req.date]
    ]_vars

\* Two POSTs for (e1, d1) were in flight together: the check-in one ran first,
\* the check-out one second, and their appends completed in the other order.
\* The mirror holds the check-out record while the last row of the store for
\* (e1, d1) is the check-in one.
C17_Witness ==
  /\ last.op = "postAttendance" /\ last.step = "resume" /\ last.status = 200
  /\ inflight = <<>>
  /\ Len(attendanceSheet) = 3
  /\ \A k \in {2, 3} : At(attendanceSheet[k], 0) = "e1" /\ At(attendanceSheet[k], 1) = "d1"
  /\ At(attendanceSheet[2], 3) = "18:00"
  /\ At(attendanceSheet[3], 2) = "09:00"
  /\ attendanceData["e1"]["d1"].checkOut = "18:00"
  /\ attendanceData["e1"]["d1"].checkIn = Undefined

\* C18: when a write handler has just answered success, the store holds the
\* change: the appended row for the three POST routes and, for the status
\* update, a row of the target leave for the patch to have landed in (that the
\* patch lands in the status cell of that row is C14).
C18_SuccessMeansStored ==
  (last.step = "resume" /\ last.status = 200) =>
    CASE last.op = "postAttendance" ->
           \E k \in 1..Len(attendanceSheet) :
             attendanceSheet[k] = SheetRow(AttendanceValues(last.req))
      [] last.op = "postEmployee" ->
           \E k \in 1..Len(employeesSheet) :
             employeesSheet[k] = SheetRow(EmployeeValues(last.req))
      [] last.op = "postLeave" ->
           \E k \in 1..Len(leaveSheet) :
             /\ At(leaveSheet[k], 0) = last.req.empId
             /\ At(leaveSheet[k], 2) = last.req.type
             /\ At(leaveSheet[k], 3) = last.req.fromDate
             /\ At(leaveSheet[k], 4) = last.req.toDate
      [] last.op = "putLeave" ->
           \E k \in 1..Len(leaveSheet) :
             IsLeaveRow(leaveSheet, k, last.req.empId, last.req.leaveId)

\* C19: the step in which a startup load merges its rows (or ends in its
\* catch) changes no entry that the attendance mirror or the employee mirror
\* already holds.  A load merges once into a mirror that started empty, so
\* every entry it finds there was written by a request handler after the
\* load's read was issued.
C19_LoadKeepsHandlerWrites ==
  [][last'.op \in {"loaded", "loadFailed"} =>
       /\ \A e \in DOMAIN attendanceData :
            /\ e \in DOMAIN attendanceData'
            /\ \A d \in DOMAIN attendanceData[e] :
                 /\ d \in DOMAIN attendanceData'[e]
                 /\ attendanceData'[e][d] = attendanceData[e][d]
       /\ \A id \in DOMAIN employees :
            /\ id \in DOMAIN employees'
            /\ employees'[id] = employees[id]
    ]_vars

\* C20: when the first write request of a run, a POST /api/attendance or a
\* POST /api/admin/employee, has been answered with success and no other call
\* is in flight, running the employee and attendance loads on an empty mirror
\* against the store gives the mirrors the process holds: the same keys and,
\* for each key, a record with the same fields and values.
C20_RoundTrip ==
  (/\ last.op \in {"postAttendance", "postEmployee"}
   /\ last.step = "resume" /\ last.status = 200
   /\ nwrites = 1
   /\ inflight = <<>>)
  => /\ MergeEmployees(employeesSheet, 1, EmptyObj) = employees
     /\ MergeAttendance(attendanceSheet, 1, EmptyObj) = attendanceData

====
